---- MODULE Spec2Model ----
(***************************************************************************)
(* k8s-port-forward-mcp: the pod-listing parser, the service resolver, the *)
(* port resolver and the start/stop tool handlers with their process       *)
(* registry.                                                               *)
(*                                                                         *)
(* Encoding of JavaScript values                                           *)
(*   - a string that the code splits or joins on "-" (pod name, namespace, *)
(*     service name, environment) is the sequence of its "-"-separated     *)
(*     segments: "dev-api-7f9c-2x4k" is <<"dev","api","7f9c","2x4k">>, the  *)
(*     empty string is <<"">>.  String.split("-") is then the identity and *)
(*     `${a}-${b}` is a \o b.  Segments hold no regular-expression         *)
(*     metacharacters (Kubernetes names are [a-z0-9-]).                    *)
(*   - undefined and null are UNDEFINED, the empty sequence (no string     *)
(*     splits into zero segments).                                         *)
(*   - a text whose characters matter (the port query's output) is the     *)
(*     sequence of its characters.                                         *)
(*   - a number is [k |-> "int", v |-> n], or NAN / NONINT when it is not  *)
(*     an integer.                                                         *)
(*   - array indices are 1-based; indexOf's -1 is 0.                       *)
(***************************************************************************)
EXTENDS Integers, Sequences, FiniteSets, TLC

VARIABLES
    calls,      \* the tool calls received so far, each with its handler's position and locals
    registry,   \* portForwardProcesses: handles (indices into procs), in push order
    procs,      \* every port-forward child ever spawned, with the signals sent to its handle
    logs,       \* every log window ever opened
    listeners,  \* number of shutdown listeners registered on the host's SIGINT/SIGTERM
    host,       \* "running" or "exited"
    hostSignals,\* SIGINT/SIGTERM deliveries to the host so far
    pure        \* input and output of the pure functions under check

vars == <<calls, registry, procs, logs, listeners, host, hostSignals, pure>>
procVars == <<calls, registry, procs, logs, listeners, host, hostSignals>>

----------------------------------------------------------------------------
(* JavaScript values *)

UNDEFINED == <<>>

Truthy(s) == s # UNDEFINED /\ s # <<"">>

Range(seq) == {seq[i] : i \in 1..Len(seq)}

\* Array.prototype.indexOf, 1-based; 0 when absent
IndexOf(seq, x) ==
    IF \E i \in 1..Len(seq) : seq[i] = x
    THEN CHOOSE i \in 1..Len(seq) : seq[i] = x /\ \A j \in 1..(i - 1) : seq[j] # x
    ELSE 0

\* columns[idx]: undefined outside the array
At(columns, idx) == IF idx \in 1..Len(columns) THEN columns[idx] ELSE UNDEFINED

\* a value inside a template literal
Show(s) == IF s = UNDEFINED THEN <<"undefined">> ELSE s

IntNum(n) == [k |-> "int", v |-> n]
NAN == [k |-> "nan", v |-> 0]
NONINT == [k |-> "nonint", v |-> 0]

----------------------------------------------------------------------------
(* Pod-listing parser *)

ENV_PREFIXES == <<"dev", "qa", "stg", "prod">>

\* ENV_PREFIXES.find((env) => nameColumn.startsWith(`${env}-`)) ?? "default"
EnvPrefixOf(nameColumn) ==
    IF \E i \in 1..Len(ENV_PREFIXES) : Len(nameColumn) >= 2 /\ nameColumn[1] = ENV_PREFIXES[i]
    THEN <<ENV_PREFIXES[CHOOSE i \in 1..Len(ENV_PREFIXES) :
                /\ Len(nameColumn) >= 2 /\ nameColumn[1] = ENV_PREFIXES[i]
                /\ \A j \in 1..(i - 1) : nameColumn[1] # ENV_PREFIXES[j]]>>
    ELSE <<"default">>

\* serviceName.replace(/^(dev|qa|stg|prod)-/, "")
StripEnvPrefix(serviceName) ==
    IF Len(serviceName) >= 2 /\ serviceName[1] \in Range(ENV_PREFIXES)
    THEN Tail(serviceName)
    ELSE serviceName

\* if (namespaceColumn) shortServiceName.replace(new RegExp(`^${namespaceColumn}-`, "g"), "")
StripNamespace(shortServiceName, namespaceColumn) ==
    IF /\ Truthy(namespaceColumn)
       /\ Len(shortServiceName) > Len(namespaceColumn)
       /\ SubSeq(shortServiceName, 1, Len(namespaceColumn)) = namespaceColumn
    THEN SubSeq(shortServiceName, Len(namespaceColumn) + 1, Len(shortServiceName))
    ELSE shortServiceName

\* Map.prototype.has / get on the services map (a sequence of [key, envs], insertion order)
MapHas(servicesMap, key) == \E i \in 1..Len(servicesMap) : servicesMap[i].key = key

MapGet(servicesMap, key) ==
    servicesMap[CHOOSE i \in 1..Len(servicesMap) : servicesMap[i].key = key].envs

\* envMap[envPrefix] = details on a plain object: an existing key keeps its
\* position, a new key goes last
EnvMapMoveLast(envs, env, d) ==
    SelectSeq(envs, LAMBDA e : e.env # env) \o <<[env |-> env, d |-> d]>>

EnvMapSet(envs, env, d) ==
    IF \E i \in 1..Len(envs) : envs[i].env = env
    THEN [i \in 1..Len(envs) |-> IF envs[i].env = env THEN [env |-> env, d |-> d] ELSE envs[i]]
    ELSE Append(envs, [env |-> env, d |-> d])

\* lines 78-86: create the short name's record when missing, then set the env key
MapUpsert(servicesMap, key, env, d) ==
    IF MapHas(servicesMap, key)
    THEN [i \in 1..Len(servicesMap) |->
            IF servicesMap[i].key = key
            THEN [key |-> key, envs |-> EnvMapSet(servicesMap[i].envs, env, d)]
            ELSE servicesMap[i]]
    ELSE Append(servicesMap, [key |-> key, envs |-> EnvMapSet(<<>>, env, d)])

\* lines 48-76 for one row: what the row does ("skip", "throw" when
\* nameColumn.startsWith meets undefined, "put") and what it puts where
RowOutcome(columns, namespace, namespaceIndex, nameIndex, statusIndex) ==
    LET statusColumn == IF statusIndex # 0 THEN At(columns, statusIndex) ELSE UNDEFINED
        namespaceColumn == IF namespace # UNDEFINED THEN namespace ELSE At(columns, namespaceIndex)
        nameColumn == At(columns, nameIndex)
        envPrefix == EnvPrefixOf(nameColumn)
        parts == nameColumn
        serviceName == SubSeq(parts, 1, Len(parts) - 2)
        serviceId == SubSeq(parts, Len(parts) - 1, Len(parts))
        shortServiceName == StripNamespace(StripEnvPrefix(serviceName), namespaceColumn)
        nothing == [id |-> UNDEFINED, namespace |-> UNDEFINED, serviceName |-> UNDEFINED]
    IN  IF statusColumn # UNDEFINED /\ statusColumn # <<"Running">>
        THEN [does |-> "skip", key |-> UNDEFINED, env |-> UNDEFINED, d |-> nothing]
        ELSE IF nameColumn = UNDEFINED
        THEN [does |-> "throw", key |-> UNDEFINED, env |-> UNDEFINED, d |-> nothing]
        ELSE IF Len(parts) > 2
        THEN [does |-> "put", key |-> shortServiceName, env |-> envPrefix,
              d |-> [id |-> serviceId, namespace |-> namespaceColumn,
                     serviceName |-> serviceName]]
        ELSE [does |-> "skip", key |-> UNDEFINED, env |-> UNDEFINED, d |-> nothing]

\* one iteration of the loop over the rows; threw = a TypeError left the function
ParseRow(acc, columns, namespace, namespaceIndex, nameIndex, statusIndex) ==
    LET row == RowOutcome(columns, namespace, namespaceIndex, nameIndex, statusIndex)
    IN  IF acc.threw \/ row.does = "skip" THEN acc
        ELSE IF row.does = "throw" THEN [acc EXCEPT !.threw = TRUE]
        ELSE [acc EXCEPT !.map = MapUpsert(acc.map, row.key, row.env, row.d)]

RECURSIVE ParseRows(_, _, _, _, _, _, _)
ParseRows(acc, rows, i, namespace, namespaceIndex, nameIndex, statusIndex) ==
    IF i > Len(rows) THEN acc
    ELSE ParseRows(ParseRow(acc, rows[i], namespace, namespaceIndex, nameIndex, statusIndex),
                   rows, i + 1, namespace, namespaceIndex, nameIndex, statusIndex)

\* podsData is the listing already cut into lines and columns:
\* [header |-> lines[0].split(/\s+/), rows |-> the other lines, each split(/\s+/)]
parseServicesMap(podsData, namespace) ==
    ParseRows([threw |-> FALSE, map |-> <<>>], podsData.rows, 1, namespace,
              IndexOf(podsData.header, "NAMESPACE"),
              IndexOf(podsData.header, "NAME"),
              IndexOf(podsData.header, "STATUS"))

----------------------------------------------------------------------------
(* Service resolver *)

NULL == [found |-> FALSE]

\* property names every plain object inherits from Object.prototype
ObjectPrototypeKeys == {<<"constructor">>, <<"toString">>}

\* what envMap[key] yields for an inherited key: a function, whose id,
\* namespace and serviceName are undefined
InheritedValue == [id |-> UNDEFINED, namespace |-> UNDEFINED, serviceName |-> UNDEFINED]

EnvMapHasOwn(envs, env) == \E i \in 1..Len(envs) : envs[i].env = env

\* envMap[env], with has = whether the value is truthy
EnvMapGet(envs, env) ==
    IF EnvMapHasOwn(envs, env)
    THEN [has |-> TRUE, d |-> envs[CHOOSE i \in 1..Len(envs) : envs[i].env = env].d]
    ELSE IF env \in ObjectPrototypeKeys
         THEN [has |-> TRUE, d |-> InheritedValue]
         ELSE [has |-> FALSE, d |-> InheritedValue]

Resolved(d, env) ==
    [found |-> TRUE,
     namespace |-> d.namespace,
     podName |-> Show(d.serviceName) \o Show(d.id),
     serviceName |-> d.serviceName,
     environment |-> env]

\* Object.entries(envMap).find(([_, d]) => d.namespace === options.namespace)
NamespaceMatches(envs, namespace) == {i \in 1..Len(envs) : envs[i].d.namespace = namespace}

FindByNamespaceLast(envs, namespace) ==
    CHOOSE i \in NamespaceMatches(envs, namespace) :
        \A j \in NamespaceMatches(envs, namespace) : j <= i

FindByNamespace(envs, namespace) ==
    CHOOSE i \in NamespaceMatches(envs, namespace) :
        \A j \in NamespaceMatches(envs, namespace) : i <= j

\* lines 149-159: the environment rule
ResolveByEnvFallback(envs, environment) ==
    LET env == IF Truthy(environment) /\ EnvMapHasOwn(envs, environment)
               THEN environment ELSE envs[1].env
    IN  Resolved(EnvMapGet(envs, env).d, env)

ResolveByEnv(envs, environment) ==
    LET env == IF ~Truthy(environment) THEN envs[1].env ELSE environment
        got == EnvMapGet(envs, env)
    IN  IF ~got.has THEN NULL ELSE Resolved(got.d, env)

resolveService(servicesMap, shortServiceName, namespace, environment) ==
    IF ~MapHas(servicesMap, shortServiceName) THEN NULL
    ELSE LET envs == MapGet(servicesMap, shortServiceName)
         IN  IF Truthy(namespace) /\ NamespaceMatches(envs, namespace) # {}
             THEN LET e == envs[FindByNamespace(envs, namespace)]
                  IN  Resolved(e.d, e.env)
             ELSE ResolveByEnv(envs, environment)

----------------------------------------------------------------------------
(* Port resolver *)

Digits == <<"0", "1", "2", "3", "4", "5", "6", "7", "8", "9">>

IsDigit(c) == c \in Range(Digits)

DigitVal(c) == IndexOf(Digits, c) - 1

\* String.prototype.trim on a sequence of characters (the only blank is " ")
RECURSIVE TrimStart(_)
TrimStart(t) == IF t # <<>> /\ Head(t) = " " THEN TrimStart(Tail(t)) ELSE t

RECURSIVE TrimEnd(_)
TrimEnd(t) == IF t # <<>> /\ t[Len(t)] = " " THEN TrimEnd(SubSeq(t, 1, Len(t) - 1)) ELSE t

Trim(t) == TrimEnd(TrimStart(t))

\* the value of the longest run of decimal digits at the head of t, after acc
RECURSIVE DigitsValue(_, _)
DigitsValue(t, acc) ==
    IF t # <<>> /\ IsDigit(Head(t))
    THEN DigitsValue(Tail(t), acc * 10 + DigitVal(Head(t)))
    ELSE acc

\* Number(text): the whole trimmed text must be a decimal integer ("" is 0)
NumberOf(text) ==
    LET t == Trim(text)
        neg == t # <<>> /\ Head(t) = "-"
        body == IF neg THEN Tail(t) ELSE t
    IN  IF t = <<>> THEN IntNum(0)
        ELSE IF body = <<>> \/ \E i \in 1..Len(body) : ~IsDigit(body[i]) THEN NAN
        ELSE IntNum(IF neg THEN 0 - DigitsValue(body, 0) ELSE DigitsValue(body, 0))

\* parseInt(text, 10): blanks, an optional sign, then the longest run of digits;
\* NaN when there is no digit there
parseInt(text) ==
    LET t == TrimStart(text)
        neg == t # <<>> /\ Head(t) = "-"
        body == IF neg THEN Tail(t) ELSE t
    IN  IF body = <<>> \/ ~IsDigit(Head(body)) THEN NAN
        ELSE IntNum(IF neg THEN 0 - DigitsValue(body, 0) ELSE DigitsValue(body, 0))

DEFAULT_PORT_TEXT == <<"3", "0", "0", "0">>

\* the outcome of execPromise(cmd): [ok |-> FALSE] when it rejects (exit code
\* or stderr), else [ok |-> TRUE, out |-> stdout]
ExecError == [ok |-> FALSE, out |-> <<>>]
ExecOk(out) == [ok |-> TRUE, out |-> out]

\* getServicePort, given what its kubectl query did
getServicePort(exec) ==
    IF ~exec.ok THEN DEFAULT_PORT_TEXT
    ELSE IF Trim(exec.out) = <<>> THEN DEFAULT_PORT_TEXT
    ELSE Trim(exec.out)

Falsy(n) == n.k = "nan" \/ (n.k = "int" /\ n.v = 0)

\* remotePortFinal = parseInt(detected, 10) || 3000
DetectedPort(detected) ==
    IF Falsy(parseInt(detected)) THEN IntNum(3000) ELSE parseInt(detected)

\* util.ts isValidPort
isValidPort(n) == n.k = "int" /\ n.v > 0 /\ n.v <= 65535

----------------------------------------------------------------------------
(* start_k8s_port_forward: one entry of the services array *)

\* a raw JSON value given for a port: a number, a string or nothing
RawNum(n) == [t |-> "number", n |-> n, s |-> <<>>]
RawStr(s) == [t |-> "string", n |-> NAN, s |-> s]
RawNone == [t |-> "none", n |-> NAN, s |-> <<>>]

\* typeof x === "number" ? x : Number(x)
ToNumber(raw) ==
    IF raw.t = "number" THEN raw.n
    ELSE IF raw.t = "string" THEN NumberOf(raw.s)
    ELSE NAN

\* the error of entry s, "" when it passes validation and resolution
EntryError(s, servicesMap) ==
    IF ~s.obj THEN "invalid object"
    ELSE IF ~Truthy(s.serviceName) THEN "serviceName is required"
    ELSE IF ~isValidPort(ToNumber(s.localPort)) THEN "localPort must be 1-65535"
    ELSE IF s.remotePort.t # "none" /\ ~isValidPort(ToNumber(s.remotePort))
         THEN "remotePort must be 1-65535"
    ELSE IF ~resolveService(servicesMap, s.serviceName, s.namespace, s.environment).found
         THEN "could not resolve service"
    ELSE ""

\* the port query of a session whose remotePort was given: none was made
NoQuery == [asked |-> FALSE, ok |-> FALSE, out |-> <<>>]
Query(exec) == [asked |-> TRUE, ok |-> exec.ok, out |-> exec.out]

\* resolved.push({...}); the display label is left out, and query records
\* what the port query of lines 251-254 answered
Session(s, servicesMap, remotePortFinal, query) ==
    LET resolvedOne == resolveService(servicesMap, s.serviceName, s.namespace, s.environment)
    IN  [namespace |-> resolvedOne.namespace,
         podName |-> resolvedOne.podName,
         localPort |-> ToNumber(s.localPort),
         remotePort |-> remotePortFinal,
         includeLogs |-> s.includeLogs,
         environment |-> resolvedOne.environment,
         query |-> query]

\* the validation loop from entry i on, up to its next await (getServicePort)
\* or its end
RECURSIVE LoopFailFast(_, _, _, _, _)
LoopFailFast(services, servicesMap, i, resolved, errors) ==
    IF i > Len(services) \/ errors # <<>>
    THEN [pc |-> "end", i |-> i, resolved |-> resolved, errors |-> errors]
    ELSE LET s == services[i]
             err == EntryError(s, servicesMap)
         IN  IF err # ""
             THEN LoopFailFast(services, servicesMap, i + 1, resolved,
                               Append(errors, [pos |-> i, kind |-> err]))
             ELSE IF s.remotePort.t # "none"
             THEN LoopFailFast(services, servicesMap, i + 1,
                               Append(resolved, Session(s, servicesMap, ToNumber(s.remotePort),
                                                        NoQuery)),
                               errors)
             ELSE [pc |-> "getPort", i |-> i, resolved |-> resolved, errors |-> errors]

RECURSIVE Loop(_, _, _, _, _)
Loop(services, servicesMap, i, resolved, errors) ==
    IF i > Len(services)
    THEN [pc |-> "end", i |-> i, resolved |-> resolved, errors |-> errors]
    ELSE LET s == services[i]
             err == EntryError(s, servicesMap)
         IN  IF err # ""
             THEN Loop(services, servicesMap, i + 1, resolved,
                       Append(errors, [pos |-> i, kind |-> err]))
             ELSE IF s.remotePort.t # "none"
             THEN Loop(services, servicesMap, i + 1,
                       Append(resolved, Session(s, servicesMap, ToNumber(s.remotePort),
                                                        NoQuery)),
                       errors)
             ELSE [pc |-> "getPort", i |-> i, resolved |-> resolved, errors |-> errors]

----------------------------------------------------------------------------
(* Bounds and inputs of the tool-call model *)

MaxCalls == 3       \* tool calls received in one run
MaxInFlight == 2    \* handlers suspended at an await at the same time
MaxEntries == 2     \* entries of a services array
MaxHostSignals == 1 \* SIGINT/SIGTERM deliveries to the host
MaxExits == 1       \* port-forward children that exit in one run
MaxBatchEntries == 3 \* entries of a services array, one call at a time
MaxRows == 3        \* pod rows of a listing

NS1 == <<"ns1">>
NS2 == <<"shared", "services">>

Row(ns, name, status) == <<ns, name, <<"1/1">>, <<status>>>>

FullHeader == <<"NAMESPACE", "NAME", "READY", "STATUS">>

\* what `kubectl get pods --all-namespaces` answers to a start call
ClusterListing ==
    [header |-> FullHeader,
     rows |-> << Row(NS1, <<"qa", "api", "7f9c", "2x4k">>, "Running"),
                 Row(NS2, <<"dev", "api", "5d8b", "9k2m">>, "Running"),
                 Row(NS1, <<"web", "6c7d", "x1y2">>, "Pending") >>]

\* the same listing with a blank line in it
BrokenListing ==
    [header |-> FullHeader,
     rows |-> << Row(NS1, <<"qa", "api", "7f9c", "2x4k">>, "Running"),
                 << <<"">> >>,
                 Row(NS2, <<"dev", "api", "5d8b", "9k2m">>, "Running") >>]

PodsExecs == {ExecError, ExecOk(ClusterListing), ExecOk(BrokenListing)}

\* what `kubectl get service ... -o jsonpath={.spec.ports[*].port}` answers
PortExecs ==
    { ExecError,
      ExecOk(<<>>),
      ExecOk(<<"a">>),
      ExecOk(<<"8", "a">>),
      ExecOk(<<"8", "0">>),
      ExecOk(<<"8", "0", " ", "4">>),
      ExecOk(<<"0">>),
      ExecOk(<<"7", "0", "0", "0", "0">>),
      ExecOk(<<"-", "5">>) }

Entry(name, local, remote, ns, env, withLogs) ==
    [obj |-> TRUE, serviceName |-> name, localPort |-> local, remotePort |-> remote,
     namespace |-> ns, environment |-> env, includeLogs |-> withLogs]

NotAnObject == [Entry(<<"">>, RawNone, RawNone, UNDEFINED, UNDEFINED, TRUE) EXCEPT !.obj = FALSE]

EntryPool ==
    { Entry(<<"api">>, RawNum(IntNum(8080)), RawNum(IntNum(80)), UNDEFINED, UNDEFINED, TRUE),
      Entry(<<"api">>, RawStr(<<"8", "0">>), RawNone, NS2, <<"qa">>, FALSE),
      Entry(<<"api">>, RawNum(IntNum(99999)), RawNone, UNDEFINED, UNDEFINED, TRUE),
      Entry(<<"api">>, RawNum(IntNum(8081)), RawNum(IntNum(0)), UNDEFINED, UNDEFINED, TRUE),
      Entry(<<"api">>, RawNum(IntNum(8082)), RawNum(IntNum(80)), UNDEFINED, <<"prod">>, TRUE),
      Entry(<<"web">>, RawNum(IntNum(8083)), RawNone, UNDEFINED, UNDEFINED, TRUE),
      Entry(<<"">>, RawNum(IntNum(8084)), RawNone, UNDEFINED, UNDEFINED, TRUE),
      Entry(<<"api">>, RawNum(NONINT), RawNone, UNDEFINED, UNDEFINED, TRUE),
      NotAnObject }

RECURSIVE SeqsUpTo(_, _)
SeqsUpTo(S, n) ==
    IF n = 0 THEN {<<>>}
    ELSE LET shorter == SeqsUpTo(S, n - 1)
         IN  shorter \cup {Append(q, x) : q \in {r \in shorter : Len(r) = n - 1}, x \in S}

\* the entries that overlapping calls are made of: explicit port, detected
\* port, unknown service
OverlapPool ==
    { Entry(<<"api">>, RawNum(IntNum(8080)), RawNum(IntNum(80)), UNDEFINED, UNDEFINED, TRUE),
      Entry(<<"api">>, RawStr(<<"8", "0">>), RawNone, NS2, <<"qa">>, FALSE),
      Entry(<<"web">>, RawNum(IntNum(8083)), RawNone, UNDEFINED, UNDEFINED, TRUE) }

\* the cluster's answers while calls overlap
OverlapPodsExecs == {ExecError, ExecOk(ClusterListing)}
OverlapPortExecs == {ExecError, ExecOk(<<"8", "0">>)}

\* the services argument; <<>> stands for an empty array and for a value that is no array
ServicesInputs == SeqsUpTo(OverlapPool, MaxEntries)

BatchInputs == SeqsUpTo(EntryPool, MaxBatchEntries)

----------------------------------------------------------------------------
(* The tool-call handlers *)

Pending == [kind |-> "pending", errors |-> <<>>, count |-> 0]

Call(tool, pc, services) ==
    [tool |-> tool, pc |-> pc, services |-> services, servicesMap |-> <<>>, i |-> 0,
     resolved |-> <<>>, errors |-> <<>>, killedCount |-> 0, ret |-> Pending]

\* a handler that has returned keeps what it answered, the services map it
\* worked on and the index its loop reached
Done(call, servicesMap, i, ret) ==
    [Call(call.tool, "done", <<>>) EXCEPT !.servicesMap = servicesMap, !.i = i, !.ret = ret]

InFlight == {c \in 1..Len(calls) : calls[c].pc # "done"}

CanReceive == host = "running" /\ Len(calls) < MaxCalls /\ Cardinality(InFlight) < MaxInFlight

\* p.kill(sig) on every handle of the registry, by a stop call (by > 0) or by
\* the host's shutdown listener (by = 0); dead records that the child had
\* exited by then
KillAll(ps, reg, sig, by) ==
    [p \in 1..Len(ps) |->
        IF p \in Range(reg)
        THEN [ps[p] EXCEPT !.sigs = Append(@, [sig |-> sig, by |-> by, dead |-> ~ps[p].alive])]
        ELSE ps[p]]

\* if (errors.length > 0) return ...
BlocksBatchWhenAllFail(errors, services) == Len(errors) = Len(services)

BlocksBatch(errors, services) == Len(errors) > 0

\* spawn("kubectl", portForwardArgs) for every resolved session
Spawned(c, resolved) ==
    [j \in 1..Len(resolved) |->
        [owner |-> c, namespace |-> resolved[j].namespace, podName |-> resolved[j].podName,
         localPort |-> resolved[j].localPort, remotePort |-> resolved[j].remotePort,
         query |-> resolved[j].query, alive |-> TRUE, sigs |-> <<>>]]

\* openLogsInTerminal for every resolved session with includeLogs
LogWindows(c, resolved) ==
    LET withLogs == SelectSeq(resolved, LAMBDA r : r.includeLogs)
    IN  [j \in 1..Len(withLogs) |->
            [owner |-> c, namespace |-> withLogs[j].namespace, podName |-> withLogs[j].podName]]

\* the handler of call c goes on from the loop state st: it suspends at the
\* next getServicePort, or leaves the loop and returns
Advance(c, servicesMap, st) ==
    IF st.pc = "getPort"
    THEN /\ calls' = [calls EXCEPT ![c] = [@ EXCEPT !.pc = "getPort",
                                                     !.servicesMap = servicesMap,
                                                     !.i = st.i,
                                                     !.resolved = st.resolved,
                                                     !.errors = st.errors]]
         /\ UNCHANGED <<registry, procs, logs, listeners>>
    ELSE IF BlocksBatch(st.errors, calls[c].services)
    THEN /\ calls' = [calls EXCEPT ![c] =
                        Done(@, servicesMap, st.i,
                             [kind |-> "errors", errors |-> st.errors, count |-> 0])]
         /\ UNCHANGED <<registry, procs, logs, listeners>>
    ELSE /\ listeners' = listeners + 1
         /\ logs' = logs \o LogWindows(c, st.resolved)
         /\ procs' = procs \o Spawned(c, st.resolved)
         /\ registry' = registry \o [j \in 1..Len(st.resolved) |-> Len(procs) + j]
         /\ calls' = [calls EXCEPT ![c] =
                        Done(@, servicesMap, st.i,
                             [kind |-> "started", errors |-> <<>>,
                              count |-> Len(st.resolved)])]

\* a start_k8s_port_forward request arrives: lines 184-193, up to await getPods
StartCall(services) ==
    /\ CanReceive
    /\ IF Len(services) = 0
       THEN calls' = Append(calls, Done(Call("start", "done", <<>>), <<>>, 0,
                                        [kind |-> "badServices", errors |-> <<>>, count |-> 0]))
       ELSE calls' = Append(calls, Call("start", "getPods", services))
    /\ UNCHANGED <<registry, procs, logs, listeners, host, hostSignals, pure>>

\* getPods settles: lines 193-275 or to the end
GetPodsReturns(c, exec) ==
    /\ host = "running"
    /\ c \in InFlight /\ calls[c].pc = "getPods"
    /\ LET parsed == parseServicesMap(exec.out, UNDEFINED)
       IN  IF ~exec.ok \/ parsed.threw
           THEN /\ calls' = [calls EXCEPT ![c] =
                               Done(@, <<>>, 0,
                                    [kind |-> "threw", errors |-> <<>>, count |-> 0])]
                /\ UNCHANGED <<registry, procs, logs, listeners>>
           ELSE Advance(c, parsed.map, Loop(calls[c].services, parsed.map, 1, <<>>, <<>>))
    /\ UNCHANGED <<host, hostSignals, pure>>

\* getServicePort settles for entry i: lines 251-270, then the loop goes on
GetPortReturns(c, exec) ==
    /\ host = "running"
    /\ c \in InFlight /\ calls[c].pc = "getPort"
    /\ LET call == calls[c]
           remotePortFinal == DetectedPort(getServicePort(exec))
           resolved == Append(call.resolved,
                              Session(call.services[call.i], call.servicesMap, remotePortFinal,
                                      Query(exec)))
       IN  Advance(c, call.servicesMap,
                   Loop(call.services, call.servicesMap, call.i + 1, resolved, call.errors))
    /\ UNCHANGED <<host, hostSignals, pure>>

\* const killedCount = portForwardProcesses.length
KilledCountAlive(reg) == Cardinality({p \in Range(reg) : procs[p].alive})

KilledCount(reg) == Len(reg)

\* a stop_k8s_port_forward request arrives: lines 348-361, up to the grace wait
StopCall ==
    /\ CanReceive
    /\ calls' = Append(calls, [Call("stop", "grace", <<>>) EXCEPT
                                  !.killedCount = KilledCount(registry)])
    /\ procs' = KillAll(procs, registry, "SIGINT", Len(calls) + 1)
    /\ UNCHANGED <<registry, logs, listeners, host, hostSignals, pure>>

\* what the registry holds after portForwardProcesses.length = 0
Cleared(reg, c) == <<>>

\* the 500ms timer fires: lines 363-380
GraceElapsed(c) ==
    /\ host = "running"
    /\ c \in InFlight /\ calls[c].pc = "grace"
    /\ procs' = KillAll(procs, registry, "SIGKILL", c)
    /\ registry' = Cleared(registry, c)
    /\ calls' = [calls EXCEPT ![c] =
                    Done(@, <<>>, 0,
                         [kind |-> "stopped", errors |-> <<>>, count |-> @.killedCount])]
    /\ UNCHANGED <<logs, listeners, host, hostSignals, pure>>

\* a port-forward child exits; its close listener only writes to stderr
ProcExitDrops(p) ==
    /\ p \in 1..Len(procs) /\ procs[p].alive
    /\ Cardinality({q \in 1..Len(procs) : ~procs[q].alive}) < MaxExits
    /\ procs' = [procs EXCEPT ![p].alive = FALSE]
    /\ registry' = SelectSeq(registry, LAMBDA q : q # p)
    /\ UNCHANGED <<calls, logs, listeners, host, hostSignals, pure>>

ProcExit(p) ==
    /\ p \in 1..Len(procs) /\ procs[p].alive
    /\ Cardinality({q \in 1..Len(procs) : ~procs[q].alive}) < MaxExits
    /\ procs' = [procs EXCEPT ![p].alive = FALSE]
    /\ UNCHANGED <<calls, registry, logs, listeners, host, hostSignals, pure>>

\* the listener `shutdown`, once per registration: p.kill() is SIGTERM
RECURSIVE Shutdowns(_, _, _)
Shutdowns(ps, reg, n) ==
    IF n = 0 THEN ps ELSE Shutdowns(KillAll(ps, reg, "SIGTERM", 0), reg, n - 1)

\* the host receives SIGINT or SIGTERM: with no listener Node ends the
\* process; with listeners (one per start that passed validation) it runs
\* them and goes on
HostSignal ==
    /\ host = "running" /\ hostSignals < MaxHostSignals
    /\ hostSignals' = hostSignals + 1
    /\ IF listeners = 0
       THEN host' = "exited" /\ procs' = procs
       ELSE host' = host /\ procs' = Shutdowns(procs, registry, listeners)
    /\ UNCHANGED <<calls, registry, logs, listeners, pure>>

NoPure == [op |-> "none"]

Init ==
    /\ calls = <<>>
    /\ registry = <<>>
    /\ procs = <<>>
    /\ logs = <<>>
    /\ listeners = 0
    /\ host = "running"
    /\ hostSignals = 0
    /\ pure = NoPure

Next ==
    \/ \E services \in ServicesInputs : StartCall(services)
    \/ \E c \in 1..Len(calls), exec \in OverlapPodsExecs : GetPodsReturns(c, exec)
    \/ \E c \in 1..Len(calls), exec \in OverlapPortExecs : GetPortReturns(c, exec)
    \/ StopCall
    \/ \E c \in 1..Len(calls) : GraceElapsed(c)
    \/ \E p \in 1..Len(procs) : ProcExit(p)

Spec == Init /\ [][Next]_vars

\* the services argument of the calls made while signals reach the host: one entry
HostInputs == {services \in ServicesInputs : Len(services) <= 1}

\* the same with signals delivered to the host
NextHost ==
    \/ \E services \in HostInputs : StartCall(services)
    \/ \E c \in 1..Len(calls), exec \in OverlapPodsExecs : GetPodsReturns(c, exec)
    \/ \E c \in 1..Len(calls), exec \in OverlapPortExecs : GetPortReturns(c, exec)
    \/ StopCall
    \/ \E c \in 1..Len(calls) : GraceElapsed(c)
    \/ \E p \in 1..Len(procs) : ProcExit(p)
    \/ HostSignal

SpecHost == Init /\ [][NextHost]_vars

\* one start call at a time, over every batch of entries
NextBatch ==
    \/ \E services \in BatchInputs : calls = <<>> /\ StartCall(services)
    \/ \E c \in 1..Len(calls), exec \in PodsExecs : GetPodsReturns(c, exec)
    \/ \E c \in 1..Len(calls), exec \in PortExecs : GetPortReturns(c, exec)

SpecBatch == Init /\ [][NextBatch]_vars

----------------------------------------------------------------------------
(* The parser and the resolver on their own: discovery (getPods, then        *)
(* parseServicesMap) as list_k8s_services and start_k8s_port_forward run it, *)
(* then resolveService on the map of a start call.                           *)

PodRow(ns, name, status) == [NAMESPACE |-> ns, NAME |-> name, STATUS |-> <<status>>]

RowPool ==
    { PodRow(NS1, <<"qa", "api", "7f9c", "2x4k">>, "Running"),
      PodRow(NS2, <<"dev", "api", "5d8b", "9k2m">>, "Running"),
      PodRow(NS2, <<"qa", "api", "aaaa", "bbbb">>, "Running"),
      PodRow(NS2, <<"shared", "services", "api", "cccc", "dddd">>, "Running"),
      PodRow(NS1, <<"dev", "7f9c", "2x4k">>, "Pending"),
      PodRow(NS1, <<"web", "x1y2">>, "Running") }

\* a line of the listing: a pod's row, a blank line, or a row cut after its
\* first column
LinePool ==
    {[row |-> r, shape |-> "full"] : r \in RowPool}
        \cup {[row |-> PodRow(NS1, <<"qa", "api", "7f9c", "2x4k">>, "Running"), shape |-> sh] :
                sh \in {"blank", "short"}}

Headers ==
    { <<"NAMESPACE", "NAME", "STATUS">>,
      <<"NAME", "STATUS">>,
      <<"NAMESPACE", "NAME">>,
      <<"NAMESPACE", "STATUS">> }

\* line.split(/\s+/) of the line as kubectl prints it under the header
Columns(line, header) ==
    IF line.shape = "blank" THEN << <<"">> >>
    ELSE IF line.shape = "short" THEN << line.row[header[1]] >>
    ELSE [i \in 1..Len(header) |-> line.row[header[i]]]

\* podsData.trim() leaves no blank line at the end of the listing
Listings ==
    {[header |-> h, rows |-> [i \in 1..Len(q) |-> Columns(q[i], h)]] :
        h \in Headers,
        q \in {r \in SeqsUpTo(LinePool, MaxRows) : r = <<>> \/ r[Len(r)].shape # "blank"}}

\* the namespace argument of list_k8s_services; start passes null
ExplicitNamespaces == {UNDEFINED, NS1}

Requests ==
    [serviceName : {<<"api">>, <<"web">>},
     namespace : {UNDEFINED, NS1, NS2},
     environment : {UNDEFINED, <<"">>, <<"qa">>, <<"prod">>, <<"constructor">>}]

InitPure ==
    /\ calls = <<>>
    /\ registry = <<>>
    /\ procs = <<>>
    /\ logs = <<>>
    /\ listeners = 0
    /\ host = "running"
    /\ hostSignals = 0
    /\ pure \in {[op |-> "input", podsData |-> l, namespace |-> ns] :
                    l \in Listings, ns \in ExplicitNamespaces}

\* parseServicesMap(podsData, namespace ?? null)
ParsePods ==
    /\ pure.op = "input"
    /\ LET parsed == parseServicesMap(pure.podsData, pure.namespace)
       IN  pure' = [op |-> "parsed", podsData |-> pure.podsData, namespace |-> pure.namespace,
                    threw |-> parsed.threw, map |-> parsed.map]
    /\ UNCHANGED procVars

\* resolveService(servicesMap, serviceName, {namespace, environment}) of a start call
ResolveOne(req) ==
    /\ pure.op = "parsed" /\ ~pure.threw /\ pure.namespace = UNDEFINED
    /\ pure' = [op |-> "resolved", podsData |-> pure.podsData, map |-> pure.map, req |-> req,
                out |-> resolveService(pure.map, req.serviceName, req.namespace,
                                       req.environment)]
    /\ UNCHANGED procVars

NextPure ==
    \/ ParsePods
    \/ \E req \in Requests : ResolveOne(req)

SpecPure == InitPure /\ [][NextPure]_vars

----------------------------------------------------------------------------
(* Claims about the start and stop handlers *)

InPortRange(n) == n.k = "int" /\ n.v >= 1 /\ n.v <= 65535

\* entry s fails validation, or resolution against servicesMap
EntryFails(s, servicesMap) ==
    \/ ~s.obj
    \/ s.serviceName \in {UNDEFINED, <<"">>}
    \/ ~InPortRange(ToNumber(s.localPort))
    \/ (s.remotePort.t # "none" /\ ~InPortRange(ToNumber(s.remotePort)))
    \/ resolveService(servicesMap, s.serviceName, s.namespace, s.environment) = NULL

FailingPositions(services, servicesMap) ==
    {i \in 1..Len(services) : EntryFails(services[i], servicesMap)}

StartSteps(c) == calls[c].tool = "start" /\ calls[c].pc # "done" /\ calls'[c] # calls[c]

StartReturns(c) ==
    /\ calls[c].tool = "start" /\ calls[c].pc # "done"
    /\ calls'[c].pc = "done" /\ calls'[c].ret.kind # "threw"

\* C1: a step of a start call whose services array holds an entry that fails
\* validation or resolution spawns no port-forward process, opens no log
\* window and leaves the registry as it is, whatever the other entries are.
C1_BatchAtomicity ==
    [][\A c \in 1..Len(calls) :
          (StartSteps(c) /\ FailingPositions(calls[c].services, calls'[c].servicesMap) # {})
              => (procs' = procs /\ logs' = logs /\ registry' = registry)]_vars

\* a call of two entries, exactly one of them failing, has returned its error
\* report while the registry holds the processes of another call
C1_Witness ==
    \E c \in 1..Len(calls) :
        /\ calls[c].tool = "start" /\ calls[c].pc = "done"
        /\ calls[c].ret.kind = "errors" /\ Len(calls[c].ret.errors) = 1 /\ calls[c].i = 3
        /\ registry # <<>>
        /\ \A p \in 1..Len(procs) : procs[p].owner # c
        /\ \A w \in 1..Len(logs) : logs[w].owner # c

\* C2: the report of a start call with a non-empty services array holds one
\* error per failing entry, in entry order, each with the entry's 1-based
\* position, and nothing for the entries that pass.
C2_ErrorAggregation ==
    [][\A c \in 1..Len(calls) :
          StartReturns(c) =>
              LET failing == FailingPositions(calls[c].services, calls'[c].servicesMap)
                  errors == calls'[c].ret.errors
              IN  /\ Len(errors) = Cardinality(failing)
                  /\ \A k \in 1..Len(errors) : errors[k].pos \in failing
                  /\ \A k \in 2..Len(errors) : errors[k - 1].pos < errors[k].pos
                  /\ (calls'[c].ret.kind = "errors") <=> (failing # {})
                  /\ (calls'[c].ret.kind = "started") <=> (failing = {})]_vars

\* a report with the errors of entries 1 and 3 of three: entry 2 passed and
\* the loop went on after the first failure
C2_Witness ==
    \E c \in 1..Len(calls) :
        /\ calls[c].pc = "done" /\ calls[c].ret.kind = "errors" /\ calls[c].i = 4
        /\ Len(calls[c].ret.errors) = 2
        /\ calls[c].ret.errors[1].pos = 1 /\ calls[c].ret.errors[2].pos = 3

\* the handles that stop call c sent sig
SignalledBy(c, sig) ==
    {p \in 1..Len(procs) : \E k \in 1..Len(procs[p].sigs) :
        procs[p].sigs[k].sig = sig /\ procs[p].sigs[k].by = c}

\* C3: when a stop call completes the registry is empty, and the count it
\* reports is the number of handles the registry held when the call began
\* (those it sent SIGINT on arrival).
C3_StopClearsRegistry ==
    [][\A c \in 1..Len(calls) :
          (calls[c].tool = "stop" /\ calls[c].pc = "grace" /\ calls'[c].pc = "done")
              => /\ registry' = <<>>
                 /\ calls'[c].ret.kind = "stopped"
                 /\ calls'[c].ret.count = Cardinality(SignalledBy(c, "SIGINT"))]_vars

\* start with two valid entries on an empty registry, one child then exits,
\* then stop: the registry is empty and the count is 2
C3_Witness ==
    /\ Len(calls) = 2
    /\ calls[1].tool = "start" /\ calls[1].ret.kind = "started" /\ calls[1].ret.count = 2
    /\ calls[2].tool = "stop" /\ calls[2].ret.kind = "stopped" /\ calls[2].ret.count = 2
    /\ registry = <<>>
    /\ \E p \in 1..Len(procs) : ~procs[p].alive

\* C4 as claimed: every handle that a stop call sent SIGKILL was sent SIGINT
\* by that stop call before.
C4_GracefulThenForced ==
    \A p \in 1..Len(procs) : \A k \in 1..Len(procs[p].sigs) :
        procs[p].sigs[k].sig = "SIGKILL"
            => \E j \in 1..(k - 1) :
                  /\ procs[p].sigs[j].sig = "SIGINT"
                  /\ procs[p].sigs[j].by = procs[p].sigs[k].by

RECURSIVE SumCounts(_)
SumCounts(n) ==
    IF n = 0 THEN 0
    ELSE SumCounts(n - 1)
            + (IF calls[n].tool = "stop" /\ calls[n].pc = "done" THEN calls[n].ret.count ELSE 0)

\* C5 as claimed: while a stop call waits, the registry holds exactly the
\* handles that call signalled on arrival, and the counts reported by the
\* stops add up to no more than the processes ever registered.
C5_NoConcurrentMutation ==
    /\ \A c \in 1..Len(calls) :
          (calls[c].tool = "stop" /\ calls[c].pc = "grace")
              => Range(registry) = SignalledBy(c, "SIGINT")
    /\ SumCounts(Len(calls)) <= Len(procs)

\* the second half of C5 on its own
C5_CountsWithinRegistered == SumCounts(Len(calls)) <= Len(procs)

----------------------------------------------------------------------------
(* Claims about the resolver, the port resolver and the parser *)

Resolving == pure.op = "resolved" /\ MapHas(pure.map, pure.req.serviceName)

EnvsOfRequest == MapGet(pure.map, pure.req.serviceName)

\* the resolution that hands out entry e of the environment map
Handing(e) ==
    [found |-> TRUE, namespace |-> e.d.namespace, podName |-> e.d.serviceName \o e.d.id,
     serviceName |-> e.d.serviceName, environment |-> e.env]

NamespaceRequested == pure.req.namespace \notin {UNDEFINED, <<"">>}

EnvironmentRequested == pure.req.environment \notin {UNDEFINED, <<"">>}

InNamespace == {i \in 1..Len(EnvsOfRequest) : EnvsOfRequest[i].d.namespace = pure.req.namespace}

WithEnvironment == {i \in 1..Len(EnvsOfRequest) : EnvsOfRequest[i].env = pure.req.environment}

\* C6: with a namespace requested and entries of the short name in that
\* namespace, resolve hands out the first of them in map order, under that
\* entry's environment tag, whatever environment was requested.
C6_NamespaceOverridesEnvironment ==
    (Resolving /\ NamespaceRequested /\ InNamespace # {})
        => \E i \in InNamespace :
              /\ \A j \in InNamespace : i <= j
              /\ pure.out = Handing(EnvsOfRequest[i])

\* the requested environment is in the map under another namespace, two
\* entries are in the requested namespace, and the first of them is handed out
C6_Witness ==
    /\ Resolving /\ NamespaceRequested /\ Cardinality(InNamespace) = 2
    /\ EnvironmentRequested /\ WithEnvironment # {} /\ WithEnvironment \cap InNamespace = {}
    /\ pure.out.found /\ pure.out.environment # pure.req.environment
    /\ pure.out.namespace = pure.req.namespace

\* C7 as claimed: without a namespace match, resolve uses the requested
\* environment when it is in the map, and the first entry of the map when it
\* is absent from the map or not given.
C7_EnvironmentFallback ==
    (Resolving /\ (~NamespaceRequested \/ InNamespace = {}))
        => IF EnvironmentRequested /\ WithEnvironment # {}
           THEN \E i \in WithEnvironment : pure.out = Handing(EnvsOfRequest[i])
           ELSE pure.out = Handing(EnvsOfRequest[1])

\* C7 as amended: without a namespace match, resolve hands out the first entry
\* of the map when no environment is given, the requested environment's entry
\* when it is in the map, and otherwise fails with not-found instead of
\* falling back; for a name that every object inherits ("constructor") it
\* returns a result with no namespace and the pod name "undefined-undefined".
C7_EnvironmentOrNotFound ==
    (Resolving /\ (~NamespaceRequested \/ InNamespace = {}))
        => IF ~EnvironmentRequested THEN pure.out = Handing(EnvsOfRequest[1])
           ELSE IF WithEnvironment # {}
           THEN \E i \in WithEnvironment : pure.out = Handing(EnvsOfRequest[i])
           ELSE IF pure.req.environment \in ObjectPrototypeKeys
           THEN pure.out = [found |-> TRUE, namespace |-> UNDEFINED,
                            podName |-> <<"undefined", "undefined">>,
                            serviceName |-> UNDEFINED,
                            environment |-> pure.req.environment]
           ELSE pure.out = NULL

\* "prod" is requested of a short name that has other environments only, in
\* no requested namespace: not-found
C7_Witness ==
    /\ Resolving /\ ~NamespaceRequested
    /\ pure.req.environment = <<"prod">> /\ WithEnvironment = {}
    /\ Len(EnvsOfRequest) >= 2
    /\ pure.out = NULL

\* what row i of the listing does in a start call's discovery
RowOf(i) ==
    RowOutcome(pure.podsData.rows[i], UNDEFINED,
               IndexOf(pure.podsData.header, "NAMESPACE"),
               IndexOf(pure.podsData.header, "NAME"),
               IndexOf(pure.podsData.header, "STATUS"))

\* the rows stored under the requested short name
RowsOfRequest ==
    {i \in 1..Len(pure.podsData.rows) :
        RowOf(i).does = "put" /\ RowOf(i).key = pure.req.serviceName}

\* C8: with neither environment nor namespace requested, resolve hands out the
\* environment tag of the first listing row stored under the short name, with
\* the identity of the last row stored under that tag.
C8_FirstInsertedFallback ==
    (Resolving /\ ~NamespaceRequested /\ ~EnvironmentRequested)
        => \E first \in RowsOfRequest, last \in RowsOfRequest :
              /\ \A i \in RowsOfRequest : first <= i
              /\ RowOf(last).env = RowOf(first).env
              /\ \A i \in RowsOfRequest : RowOf(i).env = RowOf(first).env => i <= last
              /\ pure.out = Handing([env |-> RowOf(first).env, d |-> RowOf(last).d])

\* rows qa, dev, qa: the tag handed out is qa (after dev in the alphabet and
\* in dev/qa/stg/prod), with the identity of the third row
C8_Witness ==
    /\ Resolving /\ pure.req.namespace = UNDEFINED /\ pure.req.environment = UNDEFINED
    /\ Cardinality(RowsOfRequest) = 3
    /\ pure.out.found /\ pure.out.environment = <<"qa">>
    /\ pure.out.podName = <<"qa", "api", "aaaa", "bbbb">>
    /\ \E i \in 1..Len(EnvsOfRequest) : EnvsOfRequest[i].env = <<"dev">>

\* the first blank-separated token of a text
RECURSIVE UpToBlank(_)
UpToBlank(t) == IF t = <<>> \/ Head(t) = " " THEN <<>> ELSE <<Head(t)>> \o UpToBlank(Tail(t))

FirstToken(text) == UpToBlank(Trim(text))

\* the port query failed: a tool error, an empty result, or a first token
\* that is no number
QueryFailed(query) ==
    \/ ~query.ok
    \/ Trim(query.out) = <<>>
    \/ NumberOf(FirstToken(query.out)) = NAN

\* every session resolved so far, started or not
Sessions ==
    {procs[p] : p \in 1..Len(procs)}
        \cup UNION {Range(calls[c].resolved) : c \in 1..Len(calls)}

\* C9 as claimed: a session whose port query failed with a tool error, an
\* empty result or a non-numeric result uses the remote port 3000.
C9_PortFallback ==
    \A r \in Sessions : (r.query.asked /\ QueryFailed(r.query)) => r.remotePort = IntNum(3000)

\* C10 as claimed: parse returns a map and raises nothing, for every listing
\* and explicit namespace.
C10_ParserNeverRaises == pure.op = "parsed" => ~pure.threw

----------------------------------------------------------------------------
(* Claims about the environment tag, the host's signals, process exit, the *)
(* ports of a session and the pod a resolution names                        *)

\* the tag that fullServiceName (the name without its last two segments)
\* calls for: the first of dev, qa, stg, prod that, followed by "-", starts it
FullNameTag(fullServiceName) ==
    IF Len(fullServiceName) >= 2 /\ fullServiceName[1] \in Range(ENV_PREFIXES)
    THEN <<fullServiceName[1]>>
    ELSE <<"default">>

\* every entry the parsed map holds, with the tag it is stored under
StoredEntries ==
    UNION {Range(pure.map[i].envs) : i \in 1..Len(pure.map)}

\* C11 as claimed: every pod row the parser stored is under the tag that its
\* fullServiceName calls for, "default" when no environment word followed by
\* "-" starts it (so a pod named dev-7f9c-2x4k is under "default").
C11_TagFromFullServiceName ==
    pure.op = "parsed" => \A e \in StoredEntries : e.env = FullNameTag(e.d.serviceName)

\* the handles that the host's shutdown listener signalled in this step
CascadedTo ==
    {p \in 1..Len(procs) :
        /\ Len(procs'[p].sigs) > Len(procs[p].sigs)
        /\ \A k \in (Len(procs[p].sigs) + 1)..Len(procs'[p].sigs) :
              procs'[p].sigs[k].sig = "SIGTERM" /\ procs'[p].sigs[k].by = 0}

\* C12 as claimed: when SIGINT or SIGTERM is delivered to the host, every
\* handle of the registry is sent the termination signal and the host exits.
\* No handler or listener calls process.exit, so the host can only exit
\* within the delivery itself.
C12_InterruptCascade ==
    [][hostSignals' # hostSignals
          => /\ Range(registry) \subseteq CascadedTo
             /\ host' = "exited"]_vars

\* the first half of C12 on its own: the cascade reaches the whole registry
C12_CascadeReachesRegistry ==
    [][hostSignals' # hostSignals => Range(registry) \subseteq CascadedTo]_vars

\* a signal was delivered while the registry held a child: the child was
\* sent SIGTERM and the host is still running
C12_HostKeepsRunning ==
    /\ hostSignals > 0 /\ host = "running"
    /\ \E p \in Range(registry) :
          \E k \in 1..Len(procs[p].sigs) : procs[p].sigs[k].sig = "SIGTERM"

\* C13: a child's exit leaves the registry as it is; the registry changes
\* only by a start call's pushes at its end and by the clear at the end of a
\* stop call; and a stop call counts and signals every handle of the
\* registry, those of exited children included.
C13_ExitLeavesRegistry ==
    [][/\ (\E p \in 1..Len(procs) : procs[p].alive /\ ~procs'[p].alive)
            => registry' = registry
       /\ registry' # registry
            => \/ /\ Len(registry') > Len(registry)
                  /\ SubSeq(registry', 1, Len(registry)) = registry
                  /\ \E c \in 1..Len(calls) :
                        /\ calls[c].tool = "start" /\ calls[c].pc # "done"
                        /\ calls'[c].ret.kind = "started"
               \/ /\ registry' = <<>>
                  /\ \E c \in 1..Len(calls) :
                        /\ calls[c].tool = "stop" /\ calls[c].pc = "grace"
                        /\ calls'[c].pc = "done"
       /\ \A c \in 1..Len(calls') :
             (c > Len(calls) /\ calls'[c].tool = "stop")
                => /\ calls'[c].killedCount = Len(registry)
                   /\ \A p \in Range(registry) :
                         /\ Len(procs'[p].sigs) = Len(procs[p].sigs) + 1
                         /\ procs'[p].sigs[Len(procs'[p].sigs)].sig = "SIGINT"
                         /\ procs'[p].sigs[Len(procs'[p].sigs)].by = c]_vars

\* the only child of the registry had exited when a stop call arrived: the
\* call sent SIGINT to its handle and reported 1
C13_Witness ==
    \E c \in 1..Len(calls), p \in 1..Len(procs) :
        /\ calls[c].tool = "stop" /\ calls[c].ret.kind = "stopped" /\ calls[c].ret.count = 1
        /\ ~procs[p].alive
        /\ \E k \in 1..Len(procs[p].sigs) :
              /\ procs[p].sigs[k].sig = "SIGINT" /\ procs[p].sigs[k].by = c
              /\ procs[p].sigs[k].dead

\* C14 as claimed: every port-forward child spawned by start is bound to a
\* local port and a remote port that are integers in 1..65535, whether the
\* remote port was given, detected by the cluster query, or defaulted.
C14_SessionPortsInRange ==
    \A p \in 1..Len(procs) : InPortRange(procs[p].localPort) /\ InPortRange(procs[p].remotePort)

\* the local port and a remote port given in the call are always in range
C14_GivenPortsInRange ==
    \A p \in 1..Len(procs) :
        /\ InPortRange(procs[p].localPort)
        /\ ~procs[p].query.asked => InPortRange(procs[p].remotePort)

\* the cell of row i under the header's column col, UNDEFINED when the header
\* or the row has no such cell
Cell(i, col) == At(pure.podsData.rows[i], IndexOf(pure.podsData.header, col))

\* the rows of the listing that are running pods (any row when the listing
\* has no STATUS column)
RunningRows ==
    {i \in 1..Len(pure.podsData.rows) :
        IndexOf(pure.podsData.header, "STATUS") = 0 \/ Cell(i, "STATUS") = <<"Running">>}

\* C15 as claimed: when resolve succeeds on the map parsed from a listing
\* with no explicit namespace, the pod name it returns is the NAME of a
\* running row of that listing and the namespace it returns is that row's
\* NAMESPACE.
C15_ResolvesToListedPod ==
    (pure.op = "resolved" /\ pure.out.found)
        => \E i \in RunningRows :
              /\ Cell(i, "NAME") = pure.out.podName
              /\ Cell(i, "NAMESPACE") = pure.out.namespace

\* the same for the requests whose environment is not a property name that
\* every object inherits, on the listings that have every cell of every row
C15_OwnEnvironmentsResolveToListedPod ==
    (/\ pure.op = "resolved" /\ pure.out.found
     /\ pure.req.environment \notin ObjectPrototypeKeys
     /\ \A i \in 1..Len(pure.podsData.rows) :
           Len(pure.podsData.rows[i]) = Len(pure.podsData.header))
        => \E i \in RunningRows :
              /\ Cell(i, "NAME") = pure.out.podName
              /\ Cell(i, "NAMESPACE") = pure.out.namespace

====
